---- MODULE Spec2Model ----
(***************************************************************************)
(* Model of src/app.py, the NexGen dispatch optimizer (Streamlit script).  *)
(*                                                                         *)
(* Two parts of the script are modelled:                                   *)
(*   - load_and_prepare_data (lines 25-100): reading the seven CSV files,  *)
(*     the three left joins on order_id, median imputation, the delay      *)
(*     feature, and the module-level check that halts the session;         *)
(*   - one run of the script with loaded data (lines 102-260): sidebar     *)
(*     filters, order selection, weight normalisation and, when the        *)
(*     button is pressed, the recommendation logic.                        *)
(*                                                                         *)
(* Floating point numbers are modelled as exact fractions n/d extended     *)
(* with the IEEE special values: 1/0 is +inf, -1/0 is -inf, 0/0 is NaN.    *)
(* Rounding is not modelled.                                               *)
(***************************************************************************)
EXTENDS Integers, Sequences, FiniteSets, TLC

-----------------------------------------------------------------------------
(* Bounds of the model *)

\* most vehicles in the fleet table
MaxFleet == 2
\* most rows of the orders table in a load
MaxOrders == 2
\* most rows of the three secondary tables of a load, taken together
MaxSecondaryRows == 2
\* most source files that are missing or unreadable in a load
MaxBadFiles == 1

-----------------------------------------------------------------------------
(* float64 arithmetic: fractions with inf and NaN *)

Abs(x) == IF x < 0 THEN -x ELSE x

Sign(x) == IF x < 0 THEN -1 ELSE IF x > 0 THEN 1 ELSE 0

RECURSIVE GCD(_, _)
GCD(a, b) == IF b = 0 THEN a ELSE GCD(b, a % b)

\* the float n/d, in lowest terms with d >= 0 (d = 0: an infinity or NaN)
Mk(n, d) ==
    IF d = 0 THEN [n |-> Sign(n), d |-> 0]
    ELSE LET s == IF d < 0 THEN -1 ELSE 1
             g == GCD(Abs(n), Abs(d))
         IN  [n |-> (s * n) \div g, d |-> Abs(d) \div g]

NaN == [n |-> 0, d |-> 0]
Zero == [n |-> 0, d |-> 1]
One == [n |-> 1, d |-> 1]
Num(k) == [n |-> k, d |-> 1]

IsNaN(a) == a.d = 0 /\ a.n = 0
IsFinite(a) == a.d > 0

FNeg(a) == [n |-> -a.n, d |-> a.d]

FAdd(a, b) ==
    IF IsNaN(a) \/ IsNaN(b) THEN NaN
    ELSE IF a.d = 0 /\ b.d = 0 THEN (IF a.n = b.n THEN a ELSE NaN)
    ELSE IF a.d = 0 THEN a
    ELSE IF b.d = 0 THEN b
    ELSE Mk(a.n * b.d + b.n * a.d, a.d * b.d)

FSub(a, b) == FAdd(a, FNeg(b))

FMul(a, b) == Mk(a.n * b.n, a.d * b.d)

\* x / 0 is an infinity, 0 / 0 and inf / inf are NaN, x / inf is 0
FDiv(a, b) ==
    LET s == IF b.n < 0 THEN -1 ELSE 1
    IN  Mk(a.n * b.d * s, a.d * Abs(b.n))

\* a < b; every comparison with NaN is false
FLt(a, b) ==
    /\ ~IsNaN(a)
    /\ ~IsNaN(b)
    /\ IF a.d > 0 /\ b.d > 0 THEN a.n * b.d < b.n * a.d
       ELSE IF a.d = 0 /\ b.d = 0 THEN a.n < b.n
       ELSE IF a.d = 0 THEN a.n < 0
       ELSE b.n > 0

FGt(a, b) == FLt(b, a)

\* Series.min() / Series.max(): missing values are skipped; NaN if none is left
RECURSIVE SeqMin(_)
SeqMin(s) ==
    IF s = <<>> THEN NaN
    ELSE LET m == SeqMin(Tail(s))
             h == Head(s)
         IN  IF IsNaN(h) THEN m
             ELSE IF IsNaN(m) THEN h
             ELSE IF FLt(h, m) THEN h ELSE m

RECURSIVE SeqMax(_)
SeqMax(s) ==
    IF s = <<>> THEN NaN
    ELSE LET m == SeqMax(Tail(s))
             h == Head(s)
         IN  IF IsNaN(h) THEN m
             ELSE IF IsNaN(m) THEN h
             ELSE IF FGt(h, m) THEN h ELSE m

Range(s) == {s[i] : i \in DOMAIN s}

-----------------------------------------------------------------------------
(* State *)

VARIABLES
    \* inputs of a load: the state of each source file, the four tables that
    \* are merged and the fleet table ([cols, rows] each)
    files, orders, performance, routes, fleet, costs,
    \* where the load is: "start", "loaded", "halted" (st.stop) or "crashed"
    \* (an exception left load_and_prepare_data)
    session,
    \* what the load reported: kind "none", "DataUnavailable" (with the file
    \* it names) or "DataLoadFailure"
    load_error,
    \* the merged table before imputation (kept to state the imputation)
    merged,
    \* module globals: the cached merged order table and the fleet table
    master_df, fleet_df,
    \* what the load built, for comparison after requests
    loaded_master, loaded_fleet,
    \* the last run of the script: the selected order (a sequence of 0 or 1
    \* rows), the slider values and the normalised weights, what the run
    \* ended in, the candidate table after sort_values and best_vehicle (a
    \* sequence of 0 or 1 rows)
    order_details, weights, weight_norm, outcome, ranked, best_vehicle

loadVars == <<files, orders, performance, routes, fleet, costs, session, load_error, merged>>
tableVars == <<master_df, fleet_df, loaded_master, loaded_fleet>>
runVars == <<order_details, weights, weight_norm, outcome, ranked, best_vehicle>>
vars == <<loadVars, tableVars, runVars>>

-----------------------------------------------------------------------------
(* load_and_prepare_data, lines 25-91 *)

\* the seven files in the order lines 47-53 read them
SourceFiles ==
    <<"orders.csv", "delivery_performance.csv", "routes_distance.csv",
      "vehicle_fleet.csv", "cost_breakdown.csv", "warehouse_inventory.csv",
      "customer_feedback.csv">>

\* columns a table of the model can have, after clean_col_names
OrdersColumns == {"order_id", "product_category", "priority"}
PerformanceColumns ==
    {"order_id", "promised_delivery_days", "actual_delivery_days", "customer_rating"}
RoutesColumns ==
    {"order_id", "distance_km", "traffic_delays_hours", "fuel_consumption_liters",
     "toll_charges"}
CostsColumns == {"order_id", "delivery_cost"}

\* lines 72-75
num_cols_to_fill ==
    <<"distance_km", "traffic_delays_hours", "fuel_consumption_liters",
      "toll_charges", "delivery_cost", "customer_rating">>

DateColumns == {"promised_delivery_days", "actual_delivery_days"}

MasterFields ==
    OrdersColumns \cup PerformanceColumns \cup RoutesColumns \cup CostsColumns
        \cup {"delivery_delay_hours"}

\* the cell of a row with no value in column f: an empty text or NaN
Missing(f) ==
    IF f \in {"product_category", "priority"} \cup DateColumns THEN ""
    ELSE IF f = "order_id" THEN 0
    ELSE NaN

\* a row of the orders table widened to the fields of the merged table
Widen(r, own) == [f \in MasterFields |-> IF f \in own THEN r[f] ELSE Missing(f)]

\* one row of a left join: the left row with the right row's columns
JoinRow(l, r, rcols) ==
    [f \in MasterFields |-> IF f \in rcols \ {"order_id"} THEN r[f] ELSE l[f]]

\* an inner join: a left row without a match is dropped
RECURSIVE MergeRows_Inner(_, _, _)
MergeRows_Inner(lrows, rrows, rcols) ==
    IF lrows = <<>> THEN <<>>
    ELSE LET l == Head(lrows)
             matches == SelectSeq(rrows, LAMBDA r : r.order_id = l.order_id)
         IN  [i \in DOMAIN matches |-> JoinRow(l, matches[i], rcols)]
                 \o MergeRows_Inner(Tail(lrows), rrows, rcols)

\* the rows of pd.merge(left, right, on='order_id', how='left'): every left
\* row in order, once per right row with its order_id in the right table's
\* order, or once with the right columns missing when there is none
RECURSIVE MergeRows(_, _, _)
MergeRows(lrows, rrows, rcols) ==
    IF lrows = <<>> THEN <<>>
    ELSE LET l == Head(lrows)
             matches == SelectSeq(rrows, LAMBDA r : r.order_id = l.order_id)
             joined ==
                 IF matches = <<>> THEN <<l>>
                 ELSE [i \in DOMAIN matches |-> JoinRow(l, matches[i], rcols)]
         IN  joined \o MergeRows(Tail(lrows), rrows, rcols)

\* lines 64-66, one merge; a side without order_id raises KeyError
Merge(left, right) ==
    IF "order_id" \notin left.cols \/ "order_id" \notin right.cols
    THEN [error |-> TRUE, cols |-> {}, rows |-> <<>>]
    ELSE [error |-> FALSE,
          cols |-> left.cols \cup right.cols,
          rows |-> MergeRows(left.rows, right.rows, right.cols)]

\* s with x put before the first larger element (s ascending, no NaN)
RECURSIVE Insert(_, _)
Insert(x, s) ==
    IF s = <<>> THEN <<x>>
    ELSE IF FLt(x, Head(s)) THEN <<x>> \o s
    ELSE <<Head(s)>> \o Insert(x, Tail(s))

RECURSIVE SortAsc(_)
SortAsc(s) == IF s = <<>> THEN <<>> ELSE Insert(Head(s), SortAsc(Tail(s)))

\* Series.median(): of the values that are not missing; NaN when there is none
Median(col) ==
    LET vals == SortAsc(SelectSeq(col, LAMBDA x : ~IsNaN(x)))
        n == Len(vals)
    IN  IF n = 0 THEN NaN
        ELSE IF n % 2 = 1 THEN vals[(n + 1) \div 2]
        ELSE FDiv(FAdd(vals[n \div 2], vals[n \div 2 + 1]), Num(2))

\* Series.fillna(value): fillna(NaN) leaves the missing values missing
FillNa(x, value) == IF IsNaN(x) THEN value ELSE x

\* lines 76-82 for one column
ImputeColumn(df, col) ==
    IF col \in df.cols
    THEN LET median_val == Median([i \in DOMAIN df.rows |-> df.rows[i][col]])
         IN  [cols |-> df.cols,
              rows |-> [i \in DOMAIN df.rows |->
                           [df.rows[i] EXCEPT ![col] = FillNa(@, median_val)]]]
    ELSE [cols |-> df.cols \cup {col},
          rows |-> [i \in DOMAIN df.rows |-> [df.rows[i] EXCEPT ![col] = Zero]]]

\* lines 76-82: the loop over num_cols_to_fill, from column k on
RECURSIVE ImputeFrom(_, _)
ImputeFrom(df, k) ==
    IF k > Len(num_cols_to_fill) THEN df
    ELSE ImputeFrom(ImputeColumn(df, num_cols_to_fill[k]), k + 1)

Impute(df) == ImputeFrom(df, 1)

\* pd.to_datetime(errors='coerce') on one cell, in hours since 2024-01-01:
\* a text that is no date, and a missing cell, give NaT
to_datetime(text) ==
    CASE text = "2024-01-01" -> Num(0)
      [] text = "2024-01-02" -> Num(24)
      [] text = "2024-01-03" -> Num(48)
      [] OTHER -> NaN

\* lines 85-89; a table without one of the two columns raises KeyError
DeriveDelay(df) ==
    IF ~(DateColumns \subseteq df.cols)
    THEN [error |-> TRUE, cols |-> {}, rows |-> <<>>]
    ELSE [error |-> FALSE,
          cols |-> df.cols \cup {"delivery_delay_hours"},
          rows |-> [i \in DOMAIN df.rows |->
                       [df.rows[i] EXCEPT !["delivery_delay_hours"] =
                           FillNa(FSub(to_datetime(df.rows[i]["actual_delivery_days"]),
                                       to_datetime(df.rows[i]["promised_delivery_days"])),
                                  Zero)]]]

\* lines 64-66: the three merges; error when one of them raised
MergeAll(o, p, r, c) ==
    LET wide == [cols |-> o.cols,
                 rows |-> [i \in DOMAIN o.rows |-> Widen(o.rows[i], OrdersColumns)]]
        m1 == Merge(wide, p)
        m2 == IF m1.error THEN m1 ELSE Merge([cols |-> m1.cols, rows |-> m1.rows], r)
    IN  IF m2.error THEN m2 ELSE Merge([cols |-> m2.cols, rows |-> m2.rows], c)

\* lines 63-91: the table built from the four tables read, or error when a
\* statement outside the try block raised
Prepare(o, p, r, c) ==
    LET m == MergeAll(o, p, r, c)
    IN  IF m.error THEN m
        ELSE DeriveDelay(Impute([cols |-> m.cols, rows |-> m.rows]))

\* lines 45-61: the first file that cannot be read decides the error
RECURSIVE FirstBad(_, _)
FirstBad(status, k) ==
    IF k > Len(SourceFiles) THEN 0
    ELSE IF status[SourceFiles[k]] # "ok" THEN k
    ELSE FirstBad(status, k + 1)

-----------------------------------------------------------------------------
(* Recommendation logic, lines 168-260 *)

ASSUMED_FUEL_PRICE_PER_LITER == Mk(3, 2)
ASSUMED_LABOR_COST_PER_HOUR == Num(20)

FleetColumns ==
    {"vehicle_id", "vehicle_type", "fuel_efficiency_km_per_l",
     "co2_emissions_kg_per_km", "capacity_kg"}

required_fleet_cols ==
    {"vehicle_type", "fuel_efficiency_km_per_l", "co2_emissions_kg_per_km",
     "capacity_kg"}

\* the weights divided by their total, without the fallback for total 0
NormWeights_NoFallback(w) ==
    LET total_weight == w[1] + w[2] + w[3]
    IN  [cost |-> Mk(w[1], total_weight),
         time |-> Mk(w[2], total_weight),
         co2 |-> Mk(w[3], total_weight)]

\* lines 168-174; sliders are counted in steps of 0.05
NormWeights(w) ==
    LET total_weight == w[1] + w[2] + w[3]
    IN  IF total_weight > 0
        THEN [cost |-> Mk(w[1], total_weight),
              time |-> Mk(w[2], total_weight),
              co2 |-> Mk(w[3], total_weight)]
        ELSE [cost |-> Mk(1, 3), time |-> Mk(1, 3), co2 |-> Mk(1, 3)]

\* line 181
IsPerishable(product_category) ==
    product_category \in {"Food & Beverage", "Healthcare"}

\* only the perishable branch filters: a standard order gets every vehicle
CandidateFilter_StandardUnfiltered(rows, is_perishable) ==
    IF is_perishable
    THEN SelectSeq(rows, LAMBDA v : v.vehicle_type = "refrigerated unit")
    ELSE rows

\* lines 183-187: the rows of the fleet the order can use
CandidateFilter(rows, is_perishable) ==
    IF is_perishable
    THEN SelectSeq(rows, LAMBDA v : v.vehicle_type = "refrigerated unit")
    ELSE SelectSeq(rows, LAMBDA v : v.vehicle_type # "refrigerated unit")

\* lines 206-210
get_speed(v_type) ==
    IF v_type \in {"express bike", "van"} THEN 60
    ELSE IF v_type = "truck" THEN 45
    ELSE 50

\* lines 212-223: one candidate row with its predicted metrics
Predict(v, od) ==
    LET distance == od.distance_km
        traffic == od.traffic_delays_hours
        tolls == od.toll_charges
        avg_speed_kmh == get_speed(v.vehicle_type)
        predicted_time_hours == FAdd(FDiv(distance, Num(avg_speed_kmh)), traffic)
        fuel_needed_liters == FDiv(distance, v.fuel_efficiency_km_per_l)
        fuel_cost == FMul(fuel_needed_liters, ASSUMED_FUEL_PRICE_PER_LITER)
        labor_cost == FMul(predicted_time_hours, ASSUMED_LABOR_COST_PER_HOUR)
    IN  [vehicle_id |-> v.vehicle_id,
         vehicle_type |-> v.vehicle_type,
         fuel_efficiency_km_per_l |-> v.fuel_efficiency_km_per_l,
         co2_emissions_kg_per_km |-> v.co2_emissions_kg_per_km,
         capacity_kg |-> v.capacity_kg,
         avg_speed_kmh |-> avg_speed_kmh,
         predicted_time_hours |-> predicted_time_hours,
         predicted_cost |-> FAdd(FAdd(fuel_cost, labor_cost), tolls),
         predicted_co2_kg |-> FMul(distance, v.co2_emissions_kg_per_km)]

\* lines 225-230; the scalar 0.0 is broadcast to every row by the assignment
normalize(col) ==
    LET min_val == SeqMin(col)
        max_val == SeqMax(col)
    IN  IF FGt(FSub(max_val, min_val), Zero)
        THEN [i \in DOMAIN col |->
                 FDiv(FSub(col[i], min_val), FSub(max_val, min_val))]
        ELSE [i \in DOMAIN col |-> Zero]

\* lines 232-240: the candidate table with norm_* and optimization_score
Scored(cands, wn) ==
    LET norm_cost == normalize([i \in DOMAIN cands |-> cands[i].predicted_cost])
        norm_time == normalize([i \in DOMAIN cands |-> cands[i].predicted_time_hours])
        norm_co2 == normalize([i \in DOMAIN cands |-> cands[i].predicted_co2_kg])
    IN  [i \in DOMAIN cands |->
            [row |-> cands[i],
             norm_cost |-> norm_cost[i],
             norm_time |-> norm_time[i],
             norm_co2 |-> norm_co2[i],
             optimization_score |->
                 FAdd(FAdd(FMul(wn.cost, norm_cost[i]),
                           FMul(wn.time, norm_time[i])),
                      FMul(wn.co2, norm_co2[i]))]]

\* line 242, sort_values('optimization_score') with the default
\* kind='quicksort': rows with a score ascending, rows with a NaN score last
\* in their original order. quicksort is not a stable sort, so the order of
\* rows with equal scores is any order. p[i] is the row at position i.
IsSortOrder(t, p) ==
    LET n == Len(t)
        k == Cardinality({i \in 1..n : ~IsNaN(t[i].optimization_score)})
    IN  /\ \A i \in 1..n : (i <= k) <=> ~IsNaN(t[p[i]].optimization_score)
        /\ \A i \in 1..(k - 1) :
              ~FLt(t[p[i + 1]].optimization_score, t[p[i]].optimization_score)
        /\ \A i \in (k + 1)..(n - 1) : p[i] < p[i + 1]

SortValues(t) ==
    {[i \in 1..Len(t) |-> t[p[i]]] : p \in {q \in Permutations(1..Len(t)) : IsSortOrder(t, q)}}

\* lines 177-260, the button pressed: every result the request can have
Recommend(fdf, od, wn) ==
    IF "vehicle_type" \notin fdf.cols
    THEN \* fleet_df['vehicle_type'] raises KeyError
         {[outcome |-> "KeyError", ranked |-> <<>>, best |-> <<>>]}
    ELSE
    LET is_perishable == IsPerishable(od.product_category)
        suitable_vehicles == CandidateFilter(fdf.rows, is_perishable)
    IN  IF suitable_vehicles = <<>>
        THEN {[outcome |-> "NoEligibleVehicle", ranked |-> <<>>, best |-> <<>>]}
        ELSE IF ~(required_fleet_cols \subseteq fdf.cols)
        THEN {[outcome |-> "SchemaViolation", ranked |-> <<>>, best |-> <<>>]}
        ELSE LET cands == [i \in DOMAIN suitable_vehicles |->
                              Predict(suitable_vehicles[i], od)]
             IN  {[outcome |-> IF "vehicle_id" \in fdf.cols
                               THEN "Ranked" ELSE "KeyError",
                   ranked |-> t,
                   best |-> <<t[1]>>] : t \in SortValues(Scored(cands, wn))}

\* the derived columns and the sort written to fleet_df itself
FleetAfterRequest_InPlace(fdf, res) ==
    IF res.ranked = <<>> THEN fdf
    ELSE [cols |-> fdf.cols \cup {"avg_speed_kmh", "predicted_time_hours",
                                  "predicted_cost", "predicted_co2_kg", "norm_cost",
                                  "norm_time", "norm_co2", "optimization_score"},
          rows |-> [i \in DOMAIN res.ranked |->
                       [f \in FleetColumns |-> res.ranked[i].row[f]]]]

\* lines 185-242 work on suitable_vehicles, a .copy() of the filtered fleet:
\* what fleet_df is after a request
FleetAfterRequest(fdf, res) == fdf

\* lines 120-123 take filtered_df as a .copy(): what master_df is after a run
MasterAfterRun(master, filtered) == master

-----------------------------------------------------------------------------
(* Inputs *)

SeqsUpTo(S, n) == UNION {[1..k -> S] : k \in 0..n}

OrderIds == {1, 2}

DatePairs == {<<"2024-01-01", "2024-01-03">>, <<"2024-01-02", "n/a">>}

\* the order with id i, as the orders table of the model has it
OrderRow(i) ==
    [order_id |-> i,
     product_category |->
         IF i = 1 THEN "Food & Beverage"
         ELSE IF i = 2 THEN "Electronics" ELSE "Healthcare",
     priority |-> IF i = 2 THEN "Standard" ELSE "Express"]

PerformanceRows ==
    {[order_id |-> i, promised_delivery_days |-> d[1],
      actual_delivery_days |-> d[2], customer_rating |-> x] :
        i \in OrderIds, d \in DatePairs, x \in {NaN, Num(4)}}

RouteRows ==
    {[order_id |-> i, distance_km |-> x, traffic_delays_hours |-> One,
      fuel_consumption_liters |-> Num(12), toll_charges |-> Num(5)] :
        i \in OrderIds, x \in {NaN, Zero, Num(100)}}

CostRows ==
    {[order_id |-> i, delivery_cost |-> x] : i \in OrderIds, x \in {NaN, Num(70)}}

\* a table whose columns are cols: the cells of the other columns are blank
Table(cols, rows, universe) ==
    [cols |-> cols,
     rows |-> [i \in DOMAIN rows |->
                  [f \in universe |-> IF f \in cols THEN rows[i][f] ELSE Missing(f)]]]

NoTable == [cols |-> {}, rows |-> <<>>]

VehicleProfiles ==
    {[vehicle_type |-> "refrigerated unit", fuel_efficiency_km_per_l |-> Num(8),
      co2_emissions_kg_per_km |-> Mk(3, 10)],
     [vehicle_type |-> "van", fuel_efficiency_km_per_l |-> Num(10),
      co2_emissions_kg_per_km |-> Mk(1, 5)],
     [vehicle_type |-> "truck", fuel_efficiency_km_per_l |-> Zero,
      co2_emissions_kg_per_km |-> Mk(2, 5)],
     [vehicle_type |-> "express bike", fuel_efficiency_km_per_l |-> Num(40),
      co2_emissions_kg_per_km |-> Mk(1, 20)]}

\* the fleet table with the vehicles ps, numbered in order
FleetOf(ps, cols) ==
    LET rows == [i \in DOMAIN ps |->
                    [vehicle_id |-> i,
                     vehicle_type |-> ps[i].vehicle_type,
                     fuel_efficiency_km_per_l |-> ps[i].fuel_efficiency_km_per_l,
                     co2_emissions_kg_per_km |-> ps[i].co2_emissions_kg_per_km,
                     capacity_kg |-> Num(1000)]]
    IN  [cols |-> cols,
         rows |-> [i \in DOMAIN rows |->
                      [f \in FleetColumns |->
                          IF f \in cols THEN rows[i][f]
                          ELSE IF f = "vehicle_type" THEN ""
                          ELSE IF f = "vehicle_id" THEN 0 ELSE NaN]]]

NominalFleet ==
    FleetOf(<<CHOOSE v \in VehicleProfiles : v.vehicle_type = "van">>, FleetColumns)

AllOk == [f \in Range(SourceFiles) |-> "ok"]

NoError == [kind |-> "none", file |-> ""]

\* the slider positions of a run, in steps of 0.05: all zero, all 1.0 and
\* the defaults (0.5, 0.3, 0.2)
WeightTriples == {<<0, 0, 0>>, <<20, 20, 20>>, <<10, 6, 4>>}

InitRun ==
    /\ order_details = <<>>
    /\ weights = <<10, 6, 4>>
    /\ weight_norm = NormWeights(<<10, 6, 4>>)
    /\ outcome = "idle"
    /\ ranked = <<>>
    /\ best_vehicle = <<>>

-----------------------------------------------------------------------------
(* The load, lines 25-100 *)

\* some source files are missing or unreadable; nothing read is kept
InitBadFiles ==
    /\ files \in {st \in [Range(SourceFiles) -> {"ok", "missing", "unreadable"}] :
                    LET bad == {f \in Range(SourceFiles) : st[f] # "ok"}
                    IN  bad # {} /\ Cardinality(bad) <= MaxBadFiles}
    /\ orders = NoTable /\ performance = NoTable /\ routes = NoTable
    /\ costs = NoTable /\ fleet = NoTable

\* every file is read; the tables have any of their columns
InitSchemas ==
    /\ files = AllOk
    /\ \E oc \in {OrdersColumns, OrdersColumns \ {"order_id"}},
          pc \in SUBSET PerformanceColumns,
          rc \in SUBSET RoutesColumns,
          cc \in SUBSET CostsColumns :
          /\ oc \cup pc \cup rc \cup cc # OrdersColumns \cup PerformanceColumns
                                              \cup RoutesColumns \cup CostsColumns
          /\ orders = Table(oc, <<OrderRow(1)>>, OrdersColumns)
          /\ performance =
                 Table(pc, <<[order_id |-> 1, promised_delivery_days |-> "2024-01-01",
                              actual_delivery_days |-> "2024-01-03",
                              customer_rating |-> Num(4)]>>, PerformanceColumns)
          /\ routes =
                 Table(rc, <<[order_id |-> 1, distance_km |-> Num(100),
                              traffic_delays_hours |-> One,
                              fuel_consumption_liters |-> Num(12),
                              toll_charges |-> Num(5)]>>, RoutesColumns)
          /\ costs = Table(cc, <<[order_id |-> 1, delivery_cost |-> Num(70)]>>,
                           CostsColumns)
    /\ fleet = NominalFleet

\* every file is read and has all its columns; the rows are any rows
InitTables ==
    /\ files = AllOk
    /\ \E o \in SeqsUpTo(OrderIds, MaxOrders) :
          orders = [cols |-> OrdersColumns,
                    rows |-> [i \in DOMAIN o |-> OrderRow(o[i])]]
    /\ \E kp \in 0..MaxSecondaryRows :
       \E kr \in 0..(MaxSecondaryRows - kp) :
       \E kc \in 0..(MaxSecondaryRows - kp - kr) :
          /\ performance \in [cols : {PerformanceColumns},
                              rows : [1..kp -> PerformanceRows]]
          /\ routes \in [cols : {RoutesColumns}, rows : [1..kr -> RouteRows]]
          /\ costs \in [cols : {CostsColumns}, rows : [1..kc -> CostRows]]
    /\ fleet = NominalFleet

InitLoad ==
    /\ InitTables \/ InitSchemas \/ InitBadFiles
    /\ session = "start"
    /\ load_error = NoError
    /\ merged = NoTable
    /\ master_df = NoTable
    /\ fleet_df = NoTable
    /\ loaded_master = NoTable
    /\ loaded_fleet = NoTable
    /\ InitRun

\* lines 95-100 with the call of load_and_prepare_data: one load
LoadData ==
    /\ session = "start"
    /\ LET bad == FirstBad(files, 1)
           m == MergeAll(orders, performance, routes, costs)
           res == Prepare(orders, performance, routes, costs)
       IN  IF bad # 0
           THEN \* lines 55-61 and 98-100: reported, None returned, st.stop()
                /\ load_error' =
                       IF files[SourceFiles[bad]] = "missing"
                       THEN [kind |-> "DataUnavailable", file |-> SourceFiles[bad]]
                       ELSE [kind |-> "DataLoadFailure", file |-> ""]
                /\ session' = "halted"
                /\ UNCHANGED <<merged, master_df, fleet_df, loaded_master, loaded_fleet>>
           ELSE IF res.error
           THEN \* KeyError outside the try block: the script run dies
                /\ session' = "crashed"
                /\ merged' = IF m.error THEN merged
                             ELSE [cols |-> m.cols, rows |-> m.rows]
                /\ UNCHANGED <<load_error, master_df, fleet_df,
                               loaded_master, loaded_fleet>>
           ELSE /\ session' = "loaded"
                /\ merged' = [cols |-> m.cols, rows |-> m.rows]
                /\ master_df' = [cols |-> res.cols, rows |-> res.rows]
                /\ fleet_df' = fleet
                /\ loaded_master' = [cols |-> res.cols, rows |-> res.rows]
                /\ loaded_fleet' = fleet
                /\ UNCHANGED load_error
    /\ UNCHANGED <<files, orders, performance, routes, fleet, costs, runVars>>

NextLoad == LoadData

SpecLoad == InitLoad /\ [][NextLoad]_vars

-----------------------------------------------------------------------------
(* Runs of the script with loaded data, lines 102-260 *)

RouteRow(i, x) ==
    [order_id |-> i, distance_km |-> x, traffic_delays_hours |-> One,
     fuel_consumption_liters |-> Num(12), toll_charges |-> Num(5)]

\* the routes tables of the loads the runs start from: a route for every
\* order, a route for one order, no route at all
RequestRoutes ==
    <<<<RouteRow(1, Num(100)), RouteRow(2, Num(50)), RouteRow(3, Zero)>>,
      <<RouteRow(1, Num(100))>>,
      <<>>>>

\* the fleet tables of the loads the runs start from: first with every
\* column and any vehicles, then with one column less
RequestFleets ==
    <<{FleetOf(ps, FleetColumns) : ps \in SeqsUpTo(VehicleProfiles, MaxFleet)},
      {FleetOf(ps, FleetColumns \ {c}) :
          ps \in SeqsUpTo(VehicleProfiles, 1), c \in FleetColumns}>>

\* the state after a load that succeeded
Init ==
    /\ files = AllOk
    /\ orders = [cols |-> OrdersColumns,
                 rows |-> <<OrderRow(1), OrderRow(2), OrderRow(3)>>]
    /\ performance = [cols |-> PerformanceColumns, rows |-> <<>>]
    /\ \E k \in DOMAIN RequestRoutes :
          routes = [cols |-> RoutesColumns, rows |-> RequestRoutes[k]]
    /\ costs = [cols |-> CostsColumns, rows |-> <<>>]
    /\ \E k \in DOMAIN RequestFleets : fleet \in RequestFleets[k]
    /\ session = "loaded"
    /\ load_error = NoError
    /\ \E m \in {MergeAll(orders, performance, routes, costs)} :
          merged = [cols |-> m.cols, rows |-> m.rows]
    /\ \E res \in {Prepare(orders, performance, routes, costs)} :
          master_df = [cols |-> res.cols, rows |-> res.rows]
    /\ fleet_df = fleet
    /\ loaded_master = master_df
    /\ loaded_fleet = fleet_df
    /\ InitRun

\* lines 107-117: the values a sidebar multiselect offers
Options(df, col) == {df.rows[i][col] : i \in DOMAIN df.rows}

\* lines 120-123
FilteredDf(df, category, priority) ==
    SelectSeq(df.rows, LAMBDA r : r.product_category \in category
                                  /\ r.priority \in priority)

\* line 145: the first row of filtered_df with the selected order_id
OrderDetails(filtered, selected_order_id) ==
    Head(SelectSeq(filtered, LAMBDA r : r.order_id = selected_order_id))

\* lines 125-127: no row passes the sidebar filters, st.stop()
RerunNoData(category, priority) ==
    /\ session = "loaded"
    /\ FilteredDf(master_df, category, priority) = <<>>
    /\ outcome' = "NoData"
    /\ order_details' = <<>>
    /\ ranked' = <<>>
    /\ best_vehicle' = <<>>
    /\ master_df' = MasterAfterRun(master_df, <<>>)
    /\ UNCHANGED <<weights, weight_norm, fleet_df, loaded_master, loaded_fleet, loadVars>>

\* a run in which the button is not pressed: lines 102-175, then the charts
Rerun(category, priority, sel, w) ==
    /\ session = "loaded"
    /\ LET filtered_df == FilteredDf(master_df, category, priority)
       IN  /\ sel \in DOMAIN filtered_df
           /\ order_details' = <<OrderDetails(filtered_df, filtered_df[sel].order_id)>>
           /\ master_df' = MasterAfterRun(master_df, filtered_df)
    /\ weights' = w
    /\ weight_norm' = NormWeights(w)
    /\ outcome' = "idle"
    /\ ranked' = <<>>
    /\ best_vehicle' = <<>>
    /\ UNCHANGED <<fleet_df, loaded_master, loaded_fleet, loadVars>>

\* a run in which the button is pressed: lines 102-260
OptimizeDispatch(category, priority, sel, w) ==
    /\ session = "loaded"
    /\ LET filtered_df == FilteredDf(master_df, category, priority)
       IN  /\ sel \in DOMAIN filtered_df
           /\ master_df' = MasterAfterRun(master_df, filtered_df)
           /\ \E od \in {OrderDetails(filtered_df, filtered_df[sel].order_id)} :
              \E res \in Recommend(fleet_df, od, NormWeights(w)) :
                 /\ order_details' = <<od>>
                 /\ outcome' = res.outcome
                 /\ ranked' = res.ranked
                 /\ best_vehicle' = res.best
                 /\ fleet_df' = FleetAfterRequest(fleet_df, res)
    /\ weights' = w
    /\ weight_norm' = NormWeights(w)
    /\ UNCHANGED <<loaded_master, loaded_fleet, loadVars>>

\* the selections of a sidebar multiselect in a run: everything (the
\* default), one value, nothing
Selections(options, one) == {options, options \cap {one}, {}}

Next ==
    \E category \in Selections(Options(master_df, "product_category"), "Food & Beverage"),
       priority \in Selections(Options(master_df, "priority"), "Express") :
        \/ RerunNoData(category, priority)
        \/ \E sel \in 1..Len(master_df.rows), w \in WeightTriples :
              \/ Rerun(category, priority, sel, w)
              \/ OptimizeDispatch(category, priority, sel, w)

Spec == Init /\ [][Next]_vars

-----------------------------------------------------------------------------
(* Properties of the load *)

\* the values of column col of table df, by row
Column(df, col) == [i \in DOMAIN df.rows |-> df.rows[i][col]]

RequiredColumns == Range(num_cols_to_fill)

\* C1: after a load, no cell of a required numeric column of the merged
\* table is missing, and every cell that was missing before the imputation
\* holds the median of the column's values that were not missing.
C1_ImputationComplete ==
    session = "loaded" =>
        \A col \in RequiredColumns : \A i \in DOMAIN master_df.rows :
            /\ ~IsNaN(master_df.rows[i][col])
            /\ (col \in merged.cols /\ IsNaN(merged.rows[i][col]))
                   => master_df.rows[i][col] = Median(Column(merged, col))

Secondary == <<performance, routes, costs>>

Merged == session \in {"loaded", "crashed"} /\ merged # NoTable

\* the number of rows of table t with order_id id
Matches(t, id) == Cardinality({j \in DOMAIN t.rows : t.rows[j].order_id = id})

\* C2 as stated: for every orders table and every performance, routes and
\* costs table, the merged table has as many rows as the orders table.
C2_RowCountAnyTables ==
    Merged => Len(merged.rows) = Len(orders.rows)

KeysAtMostOnce ==
    \A k \in DOMAIN Secondary : \A i \in DOMAIN orders.rows :
        Matches(Secondary[k], orders.rows[i].order_id) <= 1

\* C2 amended: when no order_id of the orders table occurs more than once in
\* the performance, routes or costs table, the merged table has one row per
\* row of the orders table, in the same order with the same order_id, and
\* an order_id absent from a secondary table gives missing cells in that
\* table's columns on its merged row.
C2_RowCountUniqueKeys ==
    (Merged /\ KeysAtMostOnce) =>
        /\ Len(merged.rows) = Len(orders.rows)
        /\ \A i \in DOMAIN orders.rows :
              /\ i \in DOMAIN merged.rows
              /\ merged.rows[i].order_id = orders.rows[i].order_id
              /\ \A k \in DOMAIN Secondary :
                    Matches(Secondary[k], orders.rows[i].order_id) = 0 =>
                        \A f \in Secondary[k].cols \ {"order_id"} :
                            merged.rows[i][f] = Missing(f)

\* a load of two orders of which one has a route and the other has none
C2_Witness ==
    /\ session = "loaded"
    /\ KeysAtMostOnce
    /\ Len(orders.rows) = 2
    /\ \E i, j \in DOMAIN orders.rows :
          /\ Matches(routes, orders.rows[i].order_id) = 1
          /\ Matches(routes, orders.rows[j].order_id) = 0
          /\ Matches(costs, orders.rows[j].order_id) = 1

\* C6: a load never ends in an uncaught error; a load that fails reports
\* DataUnavailable naming a missing file, or DataLoadFailure, and the
\* session halts; no table is kept from a load that failed.
C6_LoadFailuresReported ==
    /\ session # "crashed"
    /\ session = "halted" => load_error.kind \in {"DataUnavailable", "DataLoadFailure"}
    /\ load_error.kind = "DataUnavailable" => files[load_error.file] = "missing"
    /\ session # "loaded" => master_df = NoTable

-----------------------------------------------------------------------------
(* Properties of a run *)

\* the last run was an optimization request (the button was pressed)
Requested == outcome \notin {"idle", "NoData"}

Perishable == order_details[1].product_category \in {"Food & Beverage", "Healthcare"}

Refrigerated(v) == v.vehicle_type = "refrigerated unit"

\* the vehicles of the fleet the selected order can use
Eligible == {v \in Range(fleet_df.rows) : Refrigerated(v) <=> Perishable}

\* C3: a request on a fleet table that lacks a required column ends in the
\* schema-violation report, never in another error or message.
C3_SchemaViolationFirst ==
    (Requested /\ ~(required_fleet_cols \subseteq fleet_df.cols))
        => outcome = "SchemaViolation"

\* C4: a request with an eligible vehicle whose fuel efficiency is 0 is
\* rejected: no candidate table is produced, and no candidate row holds an
\* infinite or undefined predicted cost or time.
C4_ZeroDivisionGuarded ==
    /\ (Requested /\ required_fleet_cols \subseteq fleet_df.cols
           /\ \E v \in Eligible : v.fuel_efficiency_km_per_l = Zero)
          => ranked = <<>>
    /\ \A i \in DOMAIN ranked :
          ranked[i].row.fuel_efficiency_km_per_l = Zero =>
              /\ IsFinite(ranked[i].row.predicted_cost)
              /\ IsFinite(ranked[i].row.predicted_time_hours)

\* C5: the ranked table is ascending by optimization_score (rows without a
\* score last), the recommended vehicle is its first row, and rows with
\* equal scores are in fleet order (which makes the ranking a function of
\* the inputs).
C5_StableRanking ==
    (outcome = "Ranked") =>
        /\ \A i, j \in DOMAIN ranked :
              i < j => ~FLt(ranked[j].optimization_score, ranked[i].optimization_score)
        /\ best_vehicle = <<ranked[1]>>
        /\ \A i, j \in DOMAIN ranked :
              (i < j /\ ranked[i].optimization_score = ranked[j].optimization_score)
                  => ranked[i].row.vehicle_id < ranked[j].row.vehicle_id

\* C7: on a fleet table with a vehicle_type column, a perishable order with
\* no refrigerated unit in the fleet, and a standard order with only
\* refrigerated units, end in the no-suitable-vehicle error with no ranked
\* table and no recommendation; every vehicle of a ranked table is a
\* refrigerated unit exactly when the order is perishable.
C7_EligibilityPartition ==
    Requested =>
        /\ ("vehicle_type" \in fleet_df.cols /\ Eligible = {})
              => /\ outcome = "NoEligibleVehicle"
                 /\ ranked = <<>>
                 /\ best_vehicle = <<>>
        /\ outcome = "NoEligibleVehicle" => Eligible = {}
        /\ \A i \in DOMAIN ranked : Refrigerated(ranked[i].row) <=> Perishable

\* a standard order against a fleet of refrigerated units only
C7_Witness ==
    /\ outcome = "NoEligibleVehicle"
    /\ ~Perishable
    /\ fleet_df.rows # <<>>
    /\ \A v \in Range(fleet_df.rows) : Refrigerated(v)

\* C8: after any runs, the cached merged table and the fleet table are what
\* the load built.
C8_SharedTablesUnchanged ==
    /\ master_df = loaded_master
    /\ fleet_df = loaded_fleet

\* a request that ranked two candidates in another order than the fleet's
C8_Witness ==
    /\ outcome = "Ranked"
    /\ Len(ranked) = 2
    /\ ranked[1].row.vehicle_id > ranked[2].row.vehicle_id

Metrics ==
    {<<"predicted_cost", "norm_cost">>, <<"predicted_time_hours", "norm_time">>,
     <<"predicted_co2_kg", "norm_co2">>}

\* C9: for each predicted metric of a candidate table, when every candidate
\* has the same value the normalised value is 0 on every row; otherwise it
\* is (value - min) / (max - min), which is 0 for the minimum and 1 for the
\* maximum.
C9_MinMaxNormalisation ==
    \A m \in Metrics :
        LET col == [i \in DOMAIN ranked |-> ranked[i].row[m[1]]]
            lo == SeqMin(col)
            hi == SeqMax(col)
        IN  \A i \in DOMAIN ranked :
               IF Cardinality(Range(col)) = 1
               THEN ranked[i][m[2]] = Zero
               ELSE /\ ranked[i][m[2]] = FDiv(FSub(col[i], lo), FSub(hi, lo))
                    /\ col[i] = lo => ranked[i][m[2]] = Zero
                    /\ col[i] = hi => ranked[i][m[2]] = One

\* C10: the normalised weights sum to 1; each is the weight over the total
\* when the total is positive and 1/3 when all weights are 0, and a request
\* with weights (0, 0, 0) has the results of the request with (1, 1, 1).
C10_WeightsNormalised ==
    LET total == weights[1] + weights[2] + weights[3]
    IN  /\ FAdd(FAdd(weight_norm.cost, weight_norm.time), weight_norm.co2) = One
        /\ total > 0 =>
              weight_norm = [cost |-> Mk(weights[1], total),
                             time |-> Mk(weights[2], total),
                             co2 |-> Mk(weights[3], total)]
        /\ total = 0 =>
              weight_norm = [cost |-> Mk(1, 3), time |-> Mk(1, 3), co2 |-> Mk(1, 3)]
        /\ (Requested /\ weights = <<0, 0, 0>>) =>
              /\ [outcome |-> outcome, ranked |-> ranked, best |-> best_vehicle]
                     \in Recommend(fleet_df, order_details[1], NormWeights(<<20, 20, 20>>))
              /\ Recommend(fleet_df, order_details[1], NormWeights(<<20, 20, 20>>))
                     = Recommend(fleet_df, order_details[1], NormWeights(<<0, 0, 0>>))

\* a request with all weights zero that ranked two candidates
C10_Witness ==
    /\ weights = <<0, 0, 0>>
    /\ outcome = "Ranked"
    /\ Len(ranked) = 2
    /\ ranked[1].optimization_score # ranked[2].optimization_score

====
